---- MODULE Spec2Model ----
(***************************************************************************)
(* Model of tools/diff_fuzz.py of http-garden: normalize_request and       *)
(* categorize_discrepancy.  Byte strings are sequences of byte values.     *)
(* A parsed entry is a record tagged by "type": an HTTPRequest, an         *)
(* HTTPResponse or None.  A Server profile is a record of its quirks.      *)
(***************************************************************************)
EXTENDS Integers, Sequences, FiniteSets

\* parse_trees: the caller's result sequences, the objects the calls work on
\* servers:     the profiles, parallel to parse_trees
\* args:        the value of parse_trees when the call was made
\* pc:          where the caller is: before a call, or after it
\* result:      what categorize_discrepancy returned
\* returned:    what the calls of normalize_request returned, in order
VARIABLES parse_trees, servers, args, pc, result, returned

vars == <<parse_trees, servers, args, pc, result, returned>>

(* ------------------------------ byte strings --------------------------- *)
GET == <<71, 69, 84>>
POST == <<80, 79, 83, 84>>
V09 == <<48, 46, 57>>
V11 == <<49, 46, 49>>
C400 == <<52, 48, 48>>
C411 == <<52, 49, 49>>
C200 == <<50, 48, 48>>
HOST == <<104, 111, 115, 116>>
NA == <<97>>
NB == <<98>>
VAL1 == <<49>>
VAL2 == <<50>>
ROOT == <<47>>

None == [type |-> "none"]

Request(m, v, h) ==
    [type |-> "request", method |-> m, uri |-> ROOT, version |-> v,
     headers |-> h, body |-> <<>>]

Response(c) == [type |-> "response", code |-> c]

IsRequest(r) == r.type = "request"

IsResponse(r) == r.type = "response"

IsNone(r) == r.type = "none"

Min(a, b) == IF a < b THEN a ELSE b

Max(a, b) == IF a < b THEN b ELSE a

(* ---------------------- helpers of http1 and util ---------------------- *)
\* util.translate: a name the mapping renames becomes its new name.
translate(k, tr) ==
    IF \E i \in 1..Len(tr) : tr[i][1] = k
    THEN LET i == CHOOSE x \in 1..Len(tr) : tr[x][1] = k IN tr[i][2]
    ELSE k

RECURSIVE DropName(_, _)
DropName(hs, key) ==
    IF hs = <<>> THEN <<>>
    ELSE IF Head(hs)[1] = key THEN DropName(Tail(hs), key)
         ELSE <<Head(hs)>> \o DropName(Tail(hs), key)

\* http1.remove_request_header: a new request without the headers named key.
remove_request_header(req, key) ==
    [req EXCEPT !.headers = DropName(req.headers, key)]

\* http1.translate_request_header_names: a new request, every name renamed.
translate_request_header_names(req, tr) ==
    [req EXCEPT !.headers =
        [i \in 1..Len(req.headers) |->
            <<translate(req.headers[i][1], tr), req.headers[i][2]>>]]

\* HTTPRequest.has_header(name)
has_header(req, name) == \E i \in 1..Len(req.headers) : req.headers[i][1] = name

(* ------------------------- list.sort on headers ------------------------ *)
RECURSIVE BytesLess(_, _)
BytesLess(a, b) ==
    IF a = <<>> THEN b # <<>>
    ELSE IF b = <<>> THEN FALSE
    ELSE IF Head(a) = Head(b) THEN BytesLess(Tail(a), Tail(b))
    ELSE Head(a) < Head(b)

HeaderLess(h1, h2) ==
    \/ BytesLess(h1[1], h2[1])
    \/ h1[1] = h2[1] /\ BytesLess(h1[2], h2[2])

RECURSIVE InsertHeader(_, _)
InsertHeader(h, sorted) ==
    IF sorted = <<>> THEN <<h>>
    ELSE IF HeaderLess(Head(sorted), h)
         THEN <<Head(sorted)>> \o InsertHeader(h, Tail(sorted))
         ELSE <<h>> \o sorted

RECURSIVE SortHeaders(_)
SortHeaders(hs) ==
    IF hs = <<>> THEN <<>> ELSE InsertHeader(Head(hs), SortHeaders(Tail(hs)))

(* --------------------------- normalize_request ------------------------- *)
\* A normalization state: the request bound to r1 and whether it is a value
\* built by a helper (fresh) or still the caller's object.
RECURSIVE RemoveEach(_, _)
RemoveEach(st, names) ==
    IF names = <<>> THEN st
    ELSE RemoveEach([req |-> remove_request_header(st.req, Head(names)),
                     fresh |-> TRUE], Tail(names))

TranslateAll(names, tr) == [i \in 1..Len(names) |-> translate(names[i], tr)]

\* lines 31-32
RemoveOwnAdded(st, s1, s2) == RemoveEach(st, s1.added_headers)

\* Mutant of RemoveOtherAdded: the other server's added headers are kept.
RemoveOtherAddedSkipped(st, s1, s2) == st

\* lines 36-37
RemoveOtherAdded(st, s1, s2) ==
    RemoveEach(st, TranslateAll(s2.added_headers, s1.header_name_translation))

\* lines 41-46
RemoveDropped(st, s1, s2) ==
    RemoveEach(st,
        TranslateAll(s2.removed_headers \o s2.trashed_headers,
                     s1.header_name_translation)
        \o s1.trashed_headers
        \o s1.removed_headers)

\* Mutant of TranslateNames: the own server's mapping is applied.
TranslateNamesOwn(st, s1, s2) ==
    IF Len(s1.header_name_translation) > 0
    THEN [req |-> translate_request_header_names(st.req, s1.header_name_translation),
          fresh |-> TRUE]
    ELSE st

\* lines 49-50
TranslateNames(st, s1, s2) ==
    IF Len(s2.header_name_translation) > 0
    THEN [req |-> translate_request_header_names(st.req, s2.header_name_translation),
          fresh |-> TRUE]
    ELSE st

\* ret is the value returned; obj is the caller's request object after the
\* call: r1.headers.sort() sorts it in place when no helper built a new one.
normalize_request(r1, s1, s2) ==
    LET st0 == [req |-> r1, fresh |-> FALSE]
        st1 == RemoveOwnAdded(st0, s1, s2)
        st2 == RemoveOtherAdded(st1, s1, s2)
        st3 == RemoveDropped(st2, s1, s2)
        st4 == TranslateNames(st3, s1, s2)
        sorted == [st4.req EXCEPT !.headers = SortHeaders(st4.req.headers)]
    IN [ret |-> sorted, obj |-> IF st4.fresh THEN r1 ELSE sorted]

(* ------------------------- categorize_discrepancy ---------------------- *)
NO_DISCREPANCY == "NO_DISCREPANCY"
STATUS_DISCREPANCY == "STATUS_DISCREPANCY"
SUBTLE_DISCREPANCY == "SUBTLE_DISCREPANCY"
STREAM_DISCREPANCY == "STREAM_DISCREPANCY"

\* lines 73-75: one server responded 400 and the other did not respond
GracefulEnd(r1, r2) ==
    \/ IsNone(r1) /\ IsResponse(r2) /\ r2.code = C400
    \/ IsNone(r2) /\ IsResponse(r1) /\ r1.code = C400

\* line 79: one server didn't respond
AsymmetricAbsence(r1, r2) ==
    (IsNone(r1) \/ IsNone(r2)) /\ ~(IsNone(r1) /\ IsNone(r2))

\* lines 83-85: one server rejected and the other accepted
AcceptReject(r1, r2) ==
    \/ IsRequest(r1) /\ ~IsRequest(r2)
    \/ ~IsRequest(r1) /\ IsRequest(r2)

\* lines 87-97
Http09Exception(r1, r2, s1, s2) ==
    \/ /\ IsRequest(r1)
       /\ r1.version = V09
       /\ IsResponse(r2)
       /\ ~s2.allows_http_0_9
    \/ /\ IsRequest(r2)
       /\ r2.version = V09
       /\ IsResponse(r1)
       /\ ~s2.allows_http_0_9

\* lines 100-114
LengthException(r1, r2, s1, s2) ==
    \/ /\ IsResponse(r1)
       /\ r1.code = C411
       /\ s1.requires_length_in_post
       /\ IsRequest(r2)
       /\ r2.method = POST
       /\ ~s2.requires_length_in_post
    \/ /\ IsResponse(r2)
       /\ r2.code = C411
       /\ s2.requires_length_in_post
       /\ IsRequest(r1)
       /\ r1.method = POST
       /\ ~s1.requires_length_in_post

\* lines 117-129
HostException(r1, r2, s1, s2) ==
    \/ /\ (IsNone(r1) \/ (IsResponse(r1) /\ r1.code = C400))
       /\ ~s1.allows_missing_host_header
       /\ IsRequest(r2)
       /\ s2.allows_missing_host_header
       /\ ~has_header(r2, HOST)
    \/ /\ (IsNone(r2) \/ (IsResponse(r2) /\ r2.code = C400))
       /\ ~s2.allows_missing_host_header
       /\ IsRequest(r1)
       /\ s1.allows_missing_host_header
       /\ ~has_header(r1, HOST)

\* lines 132-142; method_whitelist is <<>> for None, <<methods>> otherwise
WhitelistException(r1, r2, s1, s2) ==
    \/ /\ s1.method_whitelist # <<>>
       /\ IsResponse(r1)
       /\ IsRequest(r2)
       /\ r2.method \notin s1.method_whitelist[1]
    \/ /\ s2.method_whitelist # <<>>
       /\ IsResponse(r2)
       /\ IsRequest(r1)
       /\ r1.method \notin s2.method_whitelist[1]

\* lines 146-154
BlacklistException(r1, r2, s1, s2) ==
    \/ /\ IsResponse(r1)
       /\ IsRequest(r2)
       /\ \E i \in 1..Len(r2.method) : r2.method[i] \in s1.method_character_blacklist
    \/ /\ IsResponse(r2)
       /\ IsRequest(r1)
       /\ \E i \in 1..Len(r1.method) : r1.method[i] \in s2.method_character_blacklist

\* lines 86-155: a known-benign exception explains the accept/reject asymmetry
BenignException(r1, r2, s1, s2) ==
    \/ Http09Exception(r1, r2, s1, s2)
    \/ LengthException(r1, r2, s1, s2)
    \/ HostException(r1, r2, s1, s2)
    \/ WhitelistException(r1, r2, s1, s2)
    \/ BlacklistException(r1, r2, s1, s2)

\* Mutant of BothAccepted: the second request is compared as parsed.
BothAcceptedRaw(r1, r2, s1, s2) ==
    LET n1 == normalize_request(r1, s1, s2)
        n2 == normalize_request(r2, s2, s1)
    IN [act |-> IF n1.ret # r2 THEN "return" ELSE "continue",
        verdict |-> SUBTLE_DISCREPANCY, o1 |-> n1.obj, o2 |-> n2.obj]

\* lines 162-172: both accepted; n1, n2 are the two normalize_request calls
BothAccepted(r1, r2, s1, s2) ==
    LET n1 == normalize_request(r1, s1, s2)
        n2 == normalize_request(r2, s2, s1)
    IN [act |-> IF n1.ret # n2.ret THEN "return" ELSE "continue",
        verdict |-> SUBTLE_DISCREPANCY, o1 |-> n1.obj, o2 |-> n2.obj]

\* lines 71-172: the body of the inner loop for one position.  act is what
\* the loop does next, o1 and o2 are the two entry objects afterwards.
ComparePosition(r1, r2, s1, s2) ==
    IF GracefulEnd(r1, r2)
    THEN [act |-> "break", verdict |-> NO_DISCREPANCY, o1 |-> r1, o2 |-> r2]
    ELSE IF AsymmetricAbsence(r1, r2)
    THEN [act |-> "return", verdict |-> STREAM_DISCREPANCY, o1 |-> r1, o2 |-> r2]
    ELSE IF AcceptReject(r1, r2)
    THEN IF BenignException(r1, r2, s1, s2)
         THEN [act |-> "break", verdict |-> NO_DISCREPANCY, o1 |-> r1, o2 |-> r2]
         ELSE [act |-> "return", verdict |-> STATUS_DISCREPANCY, o1 |-> r1, o2 |-> r2]
    ELSE IF IsRequest(r1) /\ IsRequest(r2)
    THEN BothAccepted(r1, r2, s1, s2)
    ELSE [act |-> "continue", verdict |-> NO_DISCREPANCY, o1 |-> r1, o2 |-> r2]

\* Mutant of Truncated: both servers must lack persistence.
TruncatedWhenBoth(len, s1, s2) ==
    IF s1.doesnt_support_persistence /\ s2.doesnt_support_persistence
    THEN Min(len, 1)
    ELSE len

\* lines 68-70: the number of entries of a sequence the pair compares
Truncated(len, s1, s2) ==
    IF s1.doesnt_support_persistence \/ s2.doesnt_support_persistence
    THEN Min(len, 1)
    ELSE len

\* itertools.zip_longest: None beyond the end of the shorter sequence
EntryAt(pts, lim, k) == IF k <= lim THEN pts[k] ELSE None

\* The caller's entry objects after a position was compared.
StoreEntries(trees, i, j, k, lim1, lim2, cmp) ==
    [t \in 1..Len(trees) |->
        IF t = i /\ k <= lim1 THEN [trees[i] EXCEPT ![k] = cmp.o1]
        ELSE IF t = j /\ k <= lim2 THEN [trees[j] EXCEPT ![k] = cmp.o2]
        ELSE trees[t]]

\* lines 71-172: the inner loop over the positions k.. of the pair (i, j)
RECURSIVE ScanPositions(_, _, _, _, _)
ScanPositions(trees, srv, i, j, k) ==
    LET lim1 == Truncated(Len(trees[i]), srv[i], srv[j])
        lim2 == Truncated(Len(trees[j]), srv[i], srv[j])
    IN IF k > Max(lim1, lim2)
       THEN [how |-> "exhausted", verdict |-> NO_DISCREPANCY, trees |-> trees]
       ELSE LET cmp == ComparePosition(EntryAt(trees[i], lim1, k),
                                       EntryAt(trees[j], lim2, k),
                                       srv[i], srv[j])
                after == StoreEntries(trees, i, j, k, lim1, lim2, cmp)
            IN CASE cmp.act = "return" ->
                      [how |-> "return", verdict |-> cmp.verdict, trees |-> after]
                 [] cmp.act = "break" ->
                      [how |-> "break", verdict |-> NO_DISCREPANCY, trees |-> after]
                 [] OTHER -> ScanPositions(after, srv, i, j, k + 1)

\* Mutant of EndsCall: "break" leaves both loops.
EndsCallOnBreak(scan) == scan.how \in {"return", "break"}

\* Whether the scan of one pair ends the call: only a return statement
\* does, "break" leaves the inner loop and the next pair is compared.
EndsCall(scan) == scan.how = "return"

\* itertools.combinations(zip(parse_trees, servers), 2): the pair after (i, j)
NextPair(i, j, n) == IF j < n THEN <<i, j + 1>> ELSE <<i + 1, i + 2>>

\* lines 67-173: the outer loop from the pair (i, j) on, over n zipped items
RECURSIVE ScanPairs(_, _, _, _, _)
ScanPairs(trees, srv, i, j, n) ==
    IF j > n
    THEN [verdict |-> NO_DISCREPANCY, trees |-> trees]
    ELSE LET scan == ScanPositions(trees, srv, i, j, 1)
             nxt == NextPair(i, j, n)
         IN IF EndsCall(scan)
            THEN [verdict |-> scan.verdict, trees |-> scan.trees]
            ELSE ScanPairs(scan.trees, srv, nxt[1], nxt[2], n)

\* zip(parse_trees, servers) stops at the shorter list
categorize_discrepancy(trees, srv) ==
    ScanPairs(trees, srv, 1, 2, Min(Len(trees), Len(srv)))

(* -------------------------------- actions ------------------------------ *)
\* One call categorize_discrepancy(parse_trees, servers).  The entries of two
\* servers are distinct objects, also when their values are equal.
Categorize ==
    /\ pc = "categorize"
    /\ LET out == categorize_discrepancy(parse_trees, servers)
       IN /\ result' = out.verdict
          /\ parse_trees' = out.trees
    /\ pc' = "done"
    /\ UNCHANGED <<servers, args, returned>>

\* One call normalize_request(r, s1, s2) on the caller's request
\* parse_trees[1][1] with s1 = servers[1], s2 = servers[2].
Normalize ==
    /\ pc = "normalize"
    /\ LET n == normalize_request(parse_trees[1][1], servers[1], servers[2])
       IN /\ returned' = <<n.ret>>
          /\ parse_trees' = [parse_trees EXCEPT ![1][1] = n.obj]
    /\ pc' = "normalized"
    /\ UNCHANGED <<servers, args, result>>

\* A second call normalize_request(r', s1, s2) on the value the first returned.
NormalizeAgain ==
    /\ pc = "normalized"
    /\ LET n == normalize_request(returned[1], servers[1], servers[2])
       IN returned' = Append(returned, n.ret)
    /\ pc' = "normalized_twice"
    /\ UNCHANGED <<parse_trees, servers, args, result>>

(* ------------------------------- inputs -------------------------------- *)
DefaultServer ==
    [added_headers |-> <<>>, removed_headers |-> <<>>, trashed_headers |-> <<>>,
     header_name_translation |-> <<>>,
     doesnt_support_persistence |-> FALSE,
     allows_http_0_9 |-> FALSE,
     requires_length_in_post |-> FALSE,
     allows_missing_host_header |-> FALSE,
     method_whitelist |-> <<>>,
     method_character_blacklist |-> {}]

CallCategorize(trees, srv) ==
    /\ parse_trees = trees
    /\ servers = srv
    /\ args = trees
    /\ pc = "categorize"
    /\ result = "none"
    /\ returned = <<>>

\* Accept/reject inputs: two persistent servers without header quirks, at
\* most one entry each.
StatusServers ==
    {[DefaultServer EXCEPT !.allows_http_0_9 = a,
                           !.requires_length_in_post = b,
                           !.allows_missing_host_header = c,
                           !.method_whitelist = w,
                           !.method_character_blacklist = bl] :
        a \in BOOLEAN, b \in BOOLEAN, c \in BOOLEAN,
        w \in {<<>>, <<{GET}>>}, bl \in {{}, {80}}}

StatusEntries ==
    {Request(m, v, h) : m \in {GET, POST}, v \in {V09, V11},
                        h \in {<<>>, <<<<HOST, VAL1>>>>}}
    \cup {Response(C400), Response(C411), None}

StatusSeqs == {<<>>} \cup {<<e>> : e \in StatusEntries}

InitStatus ==
    \E a \in StatusSeqs, b \in StatusSeqs, s \in StatusServers, t \in StatusServers :
        CallCategorize(<<a, b>>, <<s, t>>)

NextCategorize == Categorize

SpecStatus == InitStatus /\ [][NextCategorize]_vars

(* ------------------------------- bounds -------------------------------- *)
MaxLen == 2

MaxHeaders == 2

MaxServers == 3

SeqsUpTo(S, n) == UNION {[1..k -> S] : k \in 0..n}

\* Truncation inputs: two servers, sequences of up to MaxLen entries.
TruncEntries ==
    {Request(GET, V11, <<>>), Request(GET, V11, <<<<HOST, VAL1>>>>),
     Response(C400), Response(C200)}

TruncServers ==
    {[DefaultServer EXCEPT !.doesnt_support_persistence = p,
                           !.allows_missing_host_header = c] :
        p \in BOOLEAN, c \in BOOLEAN}

InitTrunc ==
    \E a \in SeqsUpTo(TruncEntries, MaxLen), b \in SeqsUpTo(TruncEntries, MaxLen),
       s \in TruncServers, t \in TruncServers :
        CallCategorize(<<a, b>>, <<s, t>>)

SpecTrunc == InitTrunc /\ [][NextCategorize]_vars

\* Reflexive inputs: one sequence and one profile, each passed twice.
ReflEntries ==
    {Request(GET, V11, <<>>),
     Request(GET, V11, <<<<NB, VAL1>>, <<NA, VAL1>>>>),
     Request(POST, V09, <<<<HOST, VAL1>>, <<NA, VAL2>>>>),
     Request(POST, V11, <<<<NA, VAL2>>, <<NA, VAL1>>>>),
     Response(C400), Response(C411), None}

ReflQuirks ==
    {[DefaultServer EXCEPT !.added_headers = <<NA>>],
     [DefaultServer EXCEPT !.removed_headers = <<NB>>, !.trashed_headers = <<NA>>],
     [DefaultServer EXCEPT !.header_name_translation = <<<<NA, NB>>>>],
     DefaultServer}

ReflServers ==
    {[q EXCEPT !.doesnt_support_persistence = p,
               !.allows_http_0_9 = a,
               !.requires_length_in_post = b,
               !.allows_missing_host_header = c,
               !.method_whitelist = w,
               !.method_character_blacklist = bl] :
        q \in ReflQuirks, p \in BOOLEAN, a \in BOOLEAN, b \in BOOLEAN,
        c \in BOOLEAN, w \in {<<>>, <<{GET}>>}, bl \in {{}, {80}}}

InitRefl ==
    \E a \in SeqsUpTo(ReflEntries, MaxLen), s \in ReflServers :
        CallCategorize(<<a, a>>, <<s, s>>)

SpecRefl == InitRefl /\ [][NextCategorize]_vars

\* Header inputs: accepted requests with up to MaxHeaders headers.
HeaderPool == {<<NA, VAL1>>, <<NA, VAL2>>, <<NB, VAL1>>}

HeaderLists == SeqsUpTo(HeaderPool, MaxHeaders)

SecondRequest == Request(POST, V11, <<<<NB, VAL2>>>>)

QuirkServers ==
    {DefaultServer,
     [DefaultServer EXCEPT !.added_headers = <<NA>>],
     [DefaultServer EXCEPT !.added_headers = <<NB>>],
     [DefaultServer EXCEPT !.removed_headers = <<NA>>],
     [DefaultServer EXCEPT !.trashed_headers = <<NB>>]}

HeaderSeqs ==
    {<<Request(GET, V11, h)>> \o tl : h \in HeaderLists, tl \in {<<>>, <<SecondRequest>>}}

InitHeaders ==
    \E a \in HeaderSeqs, b \in HeaderSeqs, s \in QuirkServers, t \in QuirkServers :
        CallCategorize(<<a, b>>, <<s, t>>)

SpecHeaders == InitHeaders /\ [][NextCategorize]_vars

\* N servers, 2 <= N <= MaxServers, up to two entries each.
MultiEntries == {Request(GET, V11, <<>>), Response(C400)}

MultiSeqs ==
    {<<>>} \cup {<<e>> : e \in MultiEntries}
    \cup {<<e, f>> : e \in MultiEntries, f \in MultiEntries}

MultiServers ==
    {[DefaultServer EXCEPT !.allows_missing_host_header = c] : c \in BOOLEAN}

InitMulti ==
    \E n \in 2..MaxServers :
        \E trees \in [1..n -> MultiSeqs], srv \in [1..n -> MultiServers] :
            CallCategorize(trees, srv)

SpecMulti == InitMulti /\ [][NextCategorize]_vars

\* The two lists passed with different lengths (2 and 3).
MismatchSeqs == {<<>>} \cup {<<e>> : e \in MultiEntries}

InitMismatch ==
    \E nt \in 2..3, ns \in 2..3 :
        /\ nt # ns
        /\ \E trees \in [1..nt -> MismatchSeqs], srv \in [1..ns -> MultiServers] :
               CallCategorize(trees, srv)

SpecMismatch == InitMismatch /\ [][NextCategorize]_vars

\* Direct calls of normalize_request on one request.
NormServers ==
    {[DefaultServer EXCEPT !.added_headers = ad,
                           !.removed_headers = rm,
                           !.trashed_headers = tr,
                           !.header_name_translation = m] :
        ad \in {<<>>, <<NA>>, <<NB>>}, rm \in {<<>>, <<NA>>}, tr \in {<<>>, <<NB>>},
        m \in {<<>>, <<<<NA, NB>>>>, <<<<NB, NA>>>>}}

InitNorm ==
    \E h \in HeaderLists, s \in NormServers, t \in NormServers :
        /\ parse_trees = <<<<Request(GET, V11, h)>>, <<>>>>
        /\ servers = <<s, t>>
        /\ args = parse_trees
        /\ pc = "normalize"
        /\ result = "none"
        /\ returned = <<>>

NextNormalize == Normalize \/ NormalizeAgain

SpecNorm == InitNorm /\ [][NextNormalize]_vars

Init ==
    \/ InitStatus
    \/ InitTrunc
    \/ InitRefl
    \/ InitHeaders
    \/ InitMulti
    \/ InitMismatch
    \/ InitNorm

Next == Categorize \/ Normalize \/ NormalizeAgain

Spec == Init /\ [][Next]_vars

(* ------------------------------- claims -------------------------------- *)
Swap(pair) == <<pair[2], pair[1]>>

\* C1: swapping the two servers never changes the verdict.
Symmetry ==
    pc = "done" =>
        result = categorize_discrepancy(Swap(args), Swap(servers)).verdict

\* The entry a pair's scan sees at position k of a sequence (None beyond it).
ArgAt(t, k) == EntryAt(args[t], Len(args[t]), k)

\* C9: a request parsed as HTTP/0.9 by one server and rejected by the other is
\* non-discrepant when the rejecting server does not allow HTTP/0.9, whichever
\* of the two servers rejects and whatever the accepting server allows.
Http09Benign ==
    (/\ pc = "done"
     /\ \E acc \in 1..2 :
            /\ IsRequest(ArgAt(acc, 1))
            /\ ArgAt(acc, 1).version = V09
            /\ IsResponse(ArgAt(3 - acc, 1))
            /\ ~servers[3 - acc].allows_http_0_9)
    => result = NO_DISCREPANCY

\* C10: a request without Host accepted by a server that allows a missing
\* Host, against a 400 response or no response of a server that does not
\* allow it, is non-discrepant and ends the comparison of the pair.
MissingHostBenign ==
    (/\ pc = "done"
     /\ \E acc \in 1..2 :
            /\ IsRequest(ArgAt(acc, 1))
            /\ ~has_header(ArgAt(acc, 1), HOST)
            /\ servers[acc].allows_missing_host_header
            /\ ~servers[3 - acc].allows_missing_host_header
            /\ \/ IsNone(ArgAt(3 - acc, 1))
               \/ IsResponse(ArgAt(3 - acc, 1)) /\ ArgAt(3 - acc, 1).code = C400)
    => result = NO_DISCREPANCY

\* C6: a call whose two lists differ in length raises an error instead of
\* returning a DiscrepancyType.
MismatchRaises ==
    (pc = "done" /\ Len(args) # Len(servers)) => result = "error"

\* C7: no call changes a request object of the caller's result sequences.
CallerUnchanged == parse_trees = args

\* C2 as stated: normalizing a normalized request changes nothing.
Idempotent ==
    pc = "normalized_twice" => returned[2] = returned[1]

\* C2 amended: normalizing a normalized request changes nothing when the
\* other profile's header-name translation map is empty.
IdempotentWithoutTranslation ==
    (pc = "normalized_twice" /\ servers[2].header_name_translation = <<>>)
    => returned[2] = returned[1]

IdempotentWitness ==
    /\ pc = "normalized_twice"
    /\ servers[2].header_name_translation = <<>>
    /\ servers[1].header_name_translation # <<>>
    /\ Len(returned[1].headers) = 1
    /\ Len(args[1][1].headers) = 2
    /\ returned[2] = returned[1]

\* C3: a sequence compared with itself under one profile is never discrepant.
Reflexive == pc = "done" => result = NO_DISCREPANCY

ReflexiveWitness ==
    /\ pc = "done"
    /\ Len(args[1]) = 2
    /\ IsRequest(args[1][1])
    /\ args[1][1].headers # SortHeaders(args[1][1].headers)
    /\ IsNone(args[1][2])
    /\ servers[1].added_headers # <<>>
    /\ result = NO_DISCREPANCY

Take1(seq) == SubSeq(seq, 1, Min(Len(seq), 1))

\* C4: when a server of the pair has persistence disabled, the verdict is the
\* verdict of the two sequences cut to their first entries, so no entry at an
\* index >= 1 has a part in it.
TruncationRule ==
    (/\ pc = "done"
     /\ servers[1].doesnt_support_persistence \/ servers[2].doesnt_support_persistence)
    => result = categorize_discrepancy(<<Take1(args[1]), Take1(args[2])>>, servers).verdict

TruncationWitness ==
    /\ pc = "done"
    /\ servers[1].doesnt_support_persistence
    /\ ~servers[2].doesnt_support_persistence
    /\ Len(args[1]) = 1
    /\ Len(args[2]) = 2
    /\ IsRequest(args[2][2])
    /\ result = NO_DISCREPANCY

PairVerdict(i, j) ==
    categorize_discrepancy(<<args[i], args[j]>>, <<servers[i], servers[j]>>).verdict

Pairs == {p \in (1..Len(args)) \X (1..Len(args)) : p[1] < p[2]}

Before(p, q) == p[1] < q[1] \/ (p[1] = q[1] /\ p[2] < q[2])

Discrepant == {p \in Pairs : PairVerdict(p[1], p[2]) # NO_DISCREPANCY}

\* C5: over N servers the verdict is the two-server verdict of the first pair,
\* in increasing index-pair order, whose verdict is a discrepancy, and
\* NO_DISCREPANCY exactly when no pair has one.
FirstFound ==
    (pc = "done" /\ Len(args) = Len(servers)) =>
        IF Discrepant = {}
        THEN result = NO_DISCREPANCY
        ELSE LET p == CHOOSE x \in Discrepant : \A y \in Discrepant : x = y \/ Before(x, y)
             IN result = PairVerdict(p[1], p[2])

FirstFoundWitness ==
    /\ pc = "done"
    /\ Len(args) = 3
    /\ IsResponse(ArgAt(1, 1))
    /\ IsRequest(ArgAt(2, 1))
    /\ PairVerdict(1, 2) = NO_DISCREPANCY
    /\ PairVerdict(1, 3) = NO_DISCREPANCY
    /\ PairVerdict(2, 3) = STREAM_DISCREPANCY
    /\ result = STREAM_DISCREPANCY

Range(seq) == {seq[i] : i \in 1..Len(seq)}

Count(hs, h) == Cardinality({i \in 1..Len(hs) : hs[i] = h})

SameMultiset(h1, h2) ==
    \A h \in Range(h1) \cup Range(h2) : Count(h1, h) = Count(h2, h)

QuirkNames(s) ==
    Range(s.added_headers) \cup Range(s.removed_headers) \cup Range(s.trashed_headers)

Unquirked(hs) ==
    LET names == QuirkNames(servers[1]) \cup QuirkNames(servers[2])
        Keep(h) == h[1] \notin names
    IN SelectSeq(hs, Keep)

QuirksExplain(r1, r2) ==
    /\ IsRequest(r1)
    /\ IsRequest(r2)
    /\ r1.method = r2.method
    /\ r1.uri = r2.uri
    /\ r1.version = r2.version
    /\ r1.body = r2.body
    /\ SameMultiset(Unquirked(r1.headers), Unquirked(r2.headers))

QuirksExplainAll ==
    /\ ~servers[1].doesnt_support_persistence
    /\ ~servers[2].doesnt_support_persistence
    /\ servers[1].header_name_translation = <<>>
    /\ servers[2].header_name_translation = <<>>
    /\ Len(args[1]) = Len(args[2])
    /\ \A k \in 1..Len(args[1]) : QuirksExplain(args[1][k], args[2][k])

\* C8: requests that differ only in headers a profile of the pair is known to
\* add, remove or trash are not a discrepancy.
QuirksBenign ==
    (pc = "done" /\ QuirksExplainAll) => result = NO_DISCREPANCY

QuirksBenignWitness ==
    /\ pc = "done"
    /\ QuirksExplainAll
    /\ Len(args[1]) = 2
    /\ ~SameMultiset(args[1][1].headers, args[2][1].headers)
    /\ servers[1].added_headers # <<>>
    /\ servers[2].trashed_headers # <<>>
    /\ result = NO_DISCREPANCY

====
